---- MODULE Spec2Model ----
(***************************************************************************)
(* Expense Insight Tracker Pro: the application state held by Index        *)
(* (transactions, categories, budgets, filter), the forms that mutate it   *)
(* (ExpenseForm, BudgetTracker, CategoryManager, FilterControls), the      *)
(* derived views (filtered transactions, budget spent / status, category   *)
(* names and totals, the charts' daily and cumulative series, the sorted   *)
(* and searched table), startup from localStorage and the save effects.    *)
(*                                                                         *)
(* Abstractions, stated once:                                              *)
(*  - time is a count of ticks; a day has TicksPerDay ticks, a week        *)
(*    DaysPerWeek days, a month DaysPerMonth days (all months alike);      *)
(*  - amounts are whole numbers and arithmetic on them is exact;           *)
(*  - a category is its id and its name (color and icon are display only); *)
(*  - dialogs are modal: while one is open only its own controls act.      *)
(***************************************************************************)
EXTENDS Integers, Sequences, FiniteSets, TLC

VARIABLES
    now,              \* the wall clock, read by Date.now() and new Date()
    expenses,         \* Index: useState<Expense[]>
    categories,       \* Index: useState<Category[]>
    budgets,          \* Index: useState<Budget[]>
    filters,          \* Index: useState<FilterOptions>
    isFormOpen,       \* Index: the add-transaction dialog flag
    editingExpense,   \* Index: the transaction being edited, or Null
    expenseForm,      \* ExpenseForm: its formData while mounted
    budgetTracker,    \* BudgetTracker: isFormOpen, editingBudget, formData
    categoryManager,  \* CategoryManager: isFormOpen, editingCategory, formData
    expenseList,      \* ExpenseList: searchTerm, sortField, sortDirection
    storage,          \* localStorage: each key absent (Null) or holding an array
    writes,           \* the keys written by the save effects of the last step
    effects,          \* Index: the effects of its first commit still to run
    toast,            \* the title of the toast raised by the last step
    submitted         \* whether the last step was a form's onSubmit (handleSubmit ran)

vars == <<now, expenses, categories, budgets, filters, isFormOpen,
          editingExpense, expenseForm, budgetTracker, categoryManager,
          expenseList, storage, writes, effects, toast, submitted>>

-----------------------------------------------------------------------------
(* Bounds of the model.                                                    *)

TicksPerDay == 2
DaysPerWeek == 2
DaysPerMonth == 3
MonthsPerYear == 2
MaxTicks == 1
MaxExpenses == 2
MaxBudgets == 2
MaxCategories == 3
MaxMonthSteps == 1
MaxDrawn == 2

-----------------------------------------------------------------------------
(* Values.                                                                 *)

\* null / undefined, and a present value, of an optional field
Null == <<>>
Some(x) == <<x>>
Value(o) == o[1]

\* JavaScript truthiness of an optional number: undefined, and 0, are falsy
TruthyNumber(o) == o # Null /\ Value(o) # 0

\* JavaScript truthiness of a string: only the empty string is falsy
TruthyString(s) == s # ""

NoToast == "none"

\* A Date object and the ISO string JSON.stringify turns it into
DateObj(t) == [kind |-> "Date", t |-> t]
IsoString(t) == [kind |-> "string", t |-> t]
ToISOString_dateOnly(d) == IsoString((d.t \div TicksPerDay) * TicksPerDay)
ToISOString(d) == IsoString(d.t)
NewDate(x) == DateObj(x.t)
GetTime(d) == d.t

-----------------------------------------------------------------------------
(* The calendar (date-fns).                                                *)

TicksPerMonth == DaysPerMonth * TicksPerDay
TicksPerWeek == DaysPerWeek * TicksPerDay
TicksPerYear == MonthsPerYear * TicksPerMonth

\* weeks begin one day before a month does, so that weeks straddle months
WeekShift == TicksPerDay

startOfDay(d) == DateObj((GetTime(d) \div TicksPerDay) * TicksPerDay)
startOfMonth(d) == DateObj((GetTime(d) \div TicksPerMonth) * TicksPerMonth)
endOfMonth(d) == DateObj(GetTime(startOfMonth(d)) + TicksPerMonth - 1)
startOfWeek(d) ==
    DateObj(((GetTime(d) + WeekShift) \div TicksPerWeek) * TicksPerWeek - WeekShift)
endOfWeek(d) == DateObj(GetTime(startOfWeek(d)) + TicksPerWeek - 1)
startOfYear(d) == DateObj((GetTime(d) \div TicksPerYear) * TicksPerYear)
endOfYear(d) == DateObj(GetTime(startOfYear(d)) + TicksPerYear - 1)
subMonths(d, n) == DateObj(GetTime(d) - n * TicksPerMonth)
addMonths(d, n) == DateObj(GetTime(d) + n * TicksPerMonth)

\* The first instant the clock shows: the first tick of a month of a year
Epoch == 2 * TicksPerYear

\* Date.now().toString()
DateNowString_coarser == ToString(now \div 2)
DateNowString == ToString(now)

-----------------------------------------------------------------------------
(* Sequences as arrays.                                                    *)

Range(s) == {s[i] : i \in DOMAIN s}
Includes(s, x) == x \in Range(s)
Reverse(s) == [k \in DOMAIN s |-> s[Len(s) + 1 - k]]

RECURSIVE SumAmounts(_)
\* reduce((sum, expense) => sum + expense.amount, 0)
SumAmounts(s) == IF s = <<>> THEN 0 ELSE Head(s).amount + SumAmounts(Tail(s))

\* prev.map(x => x.id === id ? f(x) : x), f given as a function on the elements
MapById(s, id, f) == [i \in DOMAIN s |-> IF s[i].id = id THEN f[s[i]] ELSE s[i]]

\* prev.filter(x => x.id !== id)
FilterOutId(s, id) == LET Keep(x) == x.id # id IN SelectSeq(s, Keep)

-----------------------------------------------------------------------------
(* Text of a number input, parseFloat and Number.prototype.toString.       *)

NumberTexts == {"-5", "0", "5", "8", "10", "85", "100"}

parseFloat(s) ==
    CASE s = "-5"  -> -5
      [] s = "0"   -> 0
      [] s = "5"   -> 5
      [] s = "8"   -> 8
      [] s = "10"  -> 10
      [] s = "85"  -> 85
      [] s = "100" -> 100

NumberToString(n) == ToString(n)

-----------------------------------------------------------------------------
(* Category lookup.                                                        *)

\* categories.find(cat => cat.id === categoryId)?.name || 'Unknown'
getCategoryName(categoryId) ==
    LET found == {i \in DOMAIN categories : categories[i].id = categoryId}
        first == CHOOSE i \in found : \A j \in found : i <= j
    IN  IF found = {} THEN "Unknown"
        ELSE IF TruthyString(categories[first].name) THEN categories[first].name
        ELSE "Unknown"

CategoryIds == {categories[i].id : i \in DOMAIN categories}

-----------------------------------------------------------------------------
(* Index: the filtered transactions.                                       *)

expenseMatchesFilters(expense) ==
    LET expenseDate == NewDate(expense.date)
        dateInRange == /\ GetTime(expenseDate) >= GetTime(filters.startDate)
                       /\ GetTime(expenseDate) <= GetTime(filters.endDate)
        categoryMatch == \/ Len(filters.categories) = 0
                         \/ Includes(filters.categories, expense.categoryId)
        amountMatch == /\ \/ ~TruthyNumber(filters.minAmount)
                          \/ expense.amount >= Value(filters.minAmount)
                       /\ \/ ~TruthyNumber(filters.maxAmount)
                          \/ expense.amount <= Value(filters.maxAmount)
        typeMatch == filters.type = "all" \/ expense.type = filters.type
    IN  dateInRange /\ categoryMatch /\ amountMatch /\ typeMatch

filteredExpenses_reversed == Reverse(SelectSeq(expenses, expenseMatchesFilters))

filteredExpenses == SelectSeq(expenses, expenseMatchesFilters)

-----------------------------------------------------------------------------
(* BudgetTracker: spent amount and status of a budget.  The component      *)
(* receives the filtered transactions as its expenses prop.                *)

BudgetTrackerExpenses == filteredExpenses

getSpentAmount(budget) ==
    LET startDate == IF budget.period = "weekly"
                     THEN startOfWeek(DateObj(now)) ELSE startOfMonth(DateObj(now))
        endDate == IF budget.period = "weekly"
                   THEN endOfWeek(DateObj(now)) ELSE endOfMonth(DateObj(now))
        InWindow(expense) ==
            /\ expense.type = "expense"
            /\ expense.categoryId = budget.categoryId
            /\ GetTime(NewDate(expense.date)) >= GetTime(startDate)
            /\ GetTime(NewDate(expense.date)) <= GetTime(endDate)
    IN  SumAmounts(SelectSeq(BudgetTrackerExpenses, InWindow))

\* (spent / budget.amount) * 100, floored: the comparisons below are with whole
\* thresholds, which flooring leaves as they are
Percentage(budget, spent) == (spent * 100) \div budget.amount

getBudgetStatus_strict(budget, spent) ==
    LET percentage == Percentage(budget, spent)
    IN  IF percentage > 100 THEN "exceeded"
        ELSE IF percentage > 80 THEN "warning"
        ELSE IF percentage > 50 THEN "moderate"
        ELSE "good"

getBudgetStatus(budget, spent) ==
    LET percentage == Percentage(budget, spent)
    IN  IF percentage >= 100 THEN "exceeded"
        ELSE IF percentage >= 80 THEN "warning"
        ELSE IF percentage >= 50 THEN "moderate"
        ELSE "good"

\* const remaining = budget.amount - spent
Remaining(budget, spent) == budget.amount - spent

Min(a, b) == IF a <= b THEN a ELSE b

BudgetCardPercentage_uncapped(budget, spent) == Percentage(budget, spent)

\* const percentage = Math.min((spent / budget.amount) * 100, 100), its whole
\* part: the whole part of the smaller is the smaller of the whole parts
BudgetCardPercentage(budget, spent) == Min(Percentage(budget, spent), 100)

\* remaining >= 0 ? 'Remaining' : 'Over budget', before Math.abs(remaining)
RemainingLabel(remaining) == IF remaining >= 0 THEN "Remaining" ELSE "Over budget"

-----------------------------------------------------------------------------
(* JSON.stringify of the three collections: a Date becomes its ISO string. *)

StringifyExpenses(list) ==
    [i \in DOMAIN list |->
        [list[i] EXCEPT !.date = ToISOString(@), !.createdAt = ToISOString(@)]]

StringifyCategories(list) == list

StringifyBudgets(list) ==
    [i \in DOMAIN list |-> [list[i] EXCEPT !.createdAt = ToISOString(@)]]

\* The save effects that run after a handler: the effect of a collection runs
\* when its setter was called (the array is a new one), in the order written.
SaveExpenses(ran) == IF ran THEN Some(StringifyExpenses(expenses')) ELSE storage.expenses
SaveCategories(ran) ==
    IF ran THEN Some(StringifyCategories(categories')) ELSE storage.categories
SaveBudgets_skipped(ran) == storage.budgets
SaveBudgets(ran) == IF ran THEN Some(StringifyBudgets(budgets')) ELSE storage.budgets

SaveEffects(setE, setC, setB) ==
    /\ storage' = [expenses   |-> SaveExpenses(setE),
                   categories |-> SaveCategories(setC),
                   budgets    |-> SaveBudgets(setB)]
    /\ writes' = (IF setE THEN <<"expenses">> ELSE <<>>)
                 \o (IF setC THEN <<"categories">> ELSE <<>>)
                 \o (IF setB THEN <<"budgets">> ELSE <<>>)
    \* the mount effects ran long ago
    /\ UNCHANGED effects

NoSave == SaveEffects(FALSE, FALSE, FALSE)

-----------------------------------------------------------------------------
(* Dialogs.                                                                *)

ExpenseFormMounted == isFormOpen \/ editingExpense # Null

NoDialogOpen ==
    /\ ~ExpenseFormMounted
    /\ ~budgetTracker.isFormOpen
    /\ ~categoryManager.isFormOpen

-----------------------------------------------------------------------------
(* The clock.                                                              *)

Tick ==
    /\ now' = now + 1
    /\ toast' = NoToast
    /\ submitted' = FALSE
    /\ NoSave
    /\ UNCHANGED <<expenses, categories, budgets, filters, isFormOpen,
                   editingExpense, expenseForm, budgetTracker, categoryManager,
                   expenseList>>

-----------------------------------------------------------------------------
(* BudgetTracker.                                                          *)

EmptyBudgetForm == [categoryId |-> "", amount |-> "", period |-> "monthly"]

BudgetTrackerOnly ==
    UNCHANGED <<now, expenses, categories, filters, isFormOpen, editingExpense,
                expenseForm, categoryManager, expenseList>>

getAvailableCategories ==
    IF budgetTracker.editingBudget # Null THEN categories
    ELSE LET Free(category) ==
                 ~\E i \in DOMAIN budgets :
                     /\ budgets[i].categoryId = category.id
                     /\ budgets[i].period = budgetTracker.formData.period
         IN  SelectSeq(categories, Free)

BudgetTracker_openAddForm_openOnly ==
    /\ NoDialogOpen
    /\ budgetTracker' = [budgetTracker EXCEPT !.isFormOpen = TRUE]
    /\ toast' = NoToast
    /\ submitted' = FALSE
    /\ NoSave
    /\ UNCHANGED budgets
    /\ BudgetTrackerOnly

BudgetTracker_openAddForm ==
    /\ NoDialogOpen
    /\ budgetTracker' = [isFormOpen |-> TRUE, editingBudget |-> Null,
                         formData |-> EmptyBudgetForm]
    /\ toast' = NoToast
    /\ submitted' = FALSE
    /\ NoSave
    /\ UNCHANGED budgets
    /\ BudgetTrackerOnly

BudgetTracker_handleEdit(budget) ==
    /\ NoDialogOpen
    /\ Includes(budgets, budget)
    /\ budgetTracker' = [isFormOpen |-> TRUE, editingBudget |-> Some(budget),
                         formData |-> [categoryId |-> budget.categoryId,
                                       amount |-> NumberToString(budget.amount),
                                       period |-> budget.period]]
    /\ toast' = NoToast
    /\ submitted' = FALSE
    /\ NoSave
    /\ UNCHANGED budgets
    /\ BudgetTrackerOnly

BudgetTracker_handleDelete(budgetId) ==
    /\ NoDialogOpen
    /\ \E i \in DOMAIN budgets : budgets[i].id = budgetId
    /\ budgets' = FilterOutId(budgets, budgetId)
    /\ toast' = "Budget Deleted"
    /\ submitted' = FALSE
    /\ SaveEffects(FALSE, FALSE, TRUE)
    /\ UNCHANGED budgetTracker
    /\ BudgetTrackerOnly

\* the period Select: disabled while editing; choosing a period clears the category
BudgetTracker_periodChange(value) ==
    /\ budgetTracker.isFormOpen
    /\ budgetTracker.editingBudget = Null
    /\ budgetTracker' = [budgetTracker EXCEPT !.formData.period = value,
                                              !.formData.categoryId = ""]
    /\ toast' = NoToast
    /\ submitted' = FALSE
    /\ NoSave
    /\ UNCHANGED budgets
    /\ BudgetTrackerOnly

\* the category Select's onValueChange
BudgetTracker_setCategoryId(value) ==
    /\ budgetTracker.isFormOpen
    /\ budgetTracker' = [budgetTracker EXCEPT !.formData.categoryId = value]
    /\ toast' = NoToast
    /\ submitted' = FALSE
    /\ NoSave
    /\ UNCHANGED budgets
    /\ BudgetTrackerOnly

\* the category Select as rendered: disabled while editing, and its items are
\* the available categories
BudgetTracker_categoryChange(value) ==
    /\ budgetTracker.editingBudget = Null
    /\ \E i \in DOMAIN getAvailableCategories : getAvailableCategories[i].id = value
    /\ BudgetTracker_setCategoryId(value)

BudgetTracker_amountChange(text) ==
    /\ budgetTracker.isFormOpen
    /\ budgetTracker' = [budgetTracker EXCEPT !.formData.amount = text]
    /\ toast' = NoToast
    /\ submitted' = FALSE
    /\ NoSave
    /\ UNCHANGED budgets
    /\ BudgetTrackerOnly

BudgetAmountRejected_negativeOnly(amount) == amount < 0

BudgetAmountRejected(amount) == amount <= 0

BudgetExists_byId(list, categoryId, period) ==
    \E i \in DOMAIN list : list[i].id = categoryId /\ list[i].period = period

BudgetExists(list, categoryId, period) ==
    \E i \in DOMAIN list : list[i].categoryId = categoryId /\ list[i].period = period

BudgetTracker_handleSubmit ==
    LET formData == budgetTracker.formData
        amount == parseFloat(formData.amount)
        editingBudget == budgetTracker.editingBudget
        Edited(budget) == [budget EXCEPT !.categoryId = formData.categoryId,
                                         !.amount = amount,
                                         !.period = formData.period]
        newBudget == [id |-> DateNowString,
                      categoryId |-> formData.categoryId,
                      amount |-> amount,
                      period |-> formData.period,
                      createdAt |-> DateObj(now)]
        Rejected(title) == /\ toast' = title
                           /\ NoSave
                           /\ UNCHANGED <<budgets, budgetTracker>>
        Reset == budgetTracker' = [isFormOpen |-> FALSE, editingBudget |-> Null,
                                   formData |-> EmptyBudgetForm]
    IN  /\ budgetTracker.isFormOpen
        /\ BudgetTrackerOnly
        /\ submitted' = TRUE
        /\ IF ~TruthyString(formData.categoryId) \/ ~TruthyString(formData.amount)
           THEN Rejected("Error: Please fill in all required fields.")
           ELSE IF BudgetAmountRejected(amount)
           THEN Rejected("Error: Budget amount must be greater than 0.")
           ELSE IF editingBudget # Null
           THEN /\ budgets' = MapById(budgets, Value(editingBudget).id,
                                      [budget \in Range(budgets) |-> Edited(budget)])
                /\ toast' = "Budget Updated"
                /\ SaveEffects(FALSE, FALSE, TRUE)
                /\ Reset
           ELSE IF BudgetExists(budgets, formData.categoryId, formData.period)
           THEN Rejected("Budget Exists")
           ELSE /\ budgets' = Append(budgets, newBudget)
                /\ toast' = "Budget Added"
                /\ SaveEffects(FALSE, FALSE, TRUE)
                /\ Reset

\* the Cancel button: setIsFormOpen(false), and nothing else
BudgetTracker_cancel ==
    /\ budgetTracker.isFormOpen
    /\ budgetTracker' = [budgetTracker EXCEPT !.isFormOpen = FALSE]
    /\ toast' = NoToast
    /\ submitted' = FALSE
    /\ NoSave
    /\ UNCHANGED budgets
    /\ BudgetTrackerOnly

\* the Dialog's onOpenChange(false): Escape, the close button, a click outside
BudgetTracker_onOpenChange ==
    /\ budgetTracker.isFormOpen
    /\ budgetTracker' = [isFormOpen |-> FALSE, editingBudget |-> Null,
                         formData |-> EmptyBudgetForm]
    /\ toast' = NoToast
    /\ submitted' = FALSE
    /\ NoSave
    /\ UNCHANGED budgets
    /\ BudgetTrackerOnly

-----------------------------------------------------------------------------
(* Index and ExpenseForm: transactions.                                    *)

TransactionsOnly ==
    UNCHANGED <<now, categories, budgets, filters, budgetTracker, categoryManager,
                expenseList>>

\* ExpenseForm's formData at mount and after a reset
EmptyExpenseForm ==
    [amount |-> "", categoryId |-> "", description |-> "",
     date |-> DateObj(now), type |-> "expense"]

\* the "Add Transaction" button; the form mounts with an empty formData
Index_openAddTransaction ==
    /\ NoDialogOpen
    /\ isFormOpen' = TRUE
    /\ expenseForm' = Some(EmptyExpenseForm)
    /\ toast' = NoToast
    /\ submitted' = FALSE
    /\ NoSave
    /\ UNCHANGED <<expenses, editingExpense>>
    /\ TransactionsOnly

\* ExpenseList's edit button: onEdit = setEditingExpense; the form mounts and
\* its effect copies the transaction into formData
ExpenseList_onEdit(expense) ==
    /\ NoDialogOpen
    /\ Includes(filteredExpenses, expense)
    /\ editingExpense' = Some(expense)
    /\ expenseForm' = Some([amount |-> NumberToString(expense.amount),
                            categoryId |-> expense.categoryId,
                            description |-> expense.description,
                            date |-> NewDate(expense.date),
                            type |-> expense.type])
    /\ toast' = NoToast
    /\ submitted' = FALSE
    /\ NoSave
    /\ UNCHANGED <<expenses, isFormOpen>>
    /\ TransactionsOnly

ExpenseForm_setField(formData) ==
    /\ ExpenseFormMounted
    /\ expenseForm' = Some(formData)
    /\ toast' = NoToast
    /\ submitted' = FALSE
    /\ NoSave
    /\ UNCHANGED <<expenses, isFormOpen, editingExpense>>
    /\ TransactionsOnly

ExpenseForm_amountChange(text) ==
    /\ ExpenseFormMounted
    /\ ExpenseForm_setField([Value(expenseForm) EXCEPT !.amount = text])

ExpenseForm_categoryChange(value) ==
    /\ ExpenseFormMounted
    /\ value \in CategoryIds
    /\ ExpenseForm_setField([Value(expenseForm) EXCEPT !.categoryId = value])

ExpenseForm_typeChange(value) ==
    /\ ExpenseFormMounted
    /\ ExpenseForm_setField([Value(expenseForm) EXCEPT !.type = value])

ExpenseForm_descriptionChange(text) ==
    /\ ExpenseFormMounted
    /\ ExpenseForm_setField([Value(expenseForm) EXCEPT !.description = text])

\* the Calendar's onSelect: the chosen day at its first instant
ExpenseForm_dateSelect(date) ==
    /\ ExpenseFormMounted
    /\ ExpenseForm_setField([Value(expenseForm) EXCEPT !.date = startOfDay(date)])

Index_handleAddExpense(expenseData) ==
    LET newExpense == [id |-> DateNowString,
                       amount |-> expenseData.amount,
                       categoryId |-> expenseData.categoryId,
                       description |-> expenseData.description,
                       date |-> expenseData.date,
                       type |-> expenseData.type,
                       createdAt |-> DateObj(now)]
    IN  /\ expenses' = <<newExpense>> \o expenses
        /\ isFormOpen' = FALSE
        /\ toast' = "Expense Added"
        /\ UNCHANGED editingExpense

Index_handleEditExpense(id, expenseData) ==
    LET Edited(expense) == [expense EXCEPT !.amount = expenseData.amount,
                                           !.categoryId = expenseData.categoryId,
                                           !.description = expenseData.description,
                                           !.date = expenseData.date,
                                           !.type = expenseData.type]
    IN  /\ expenses' = MapById(expenses, id, [expense \in Range(expenses) |-> Edited(expense)])
        /\ editingExpense' = Null
        /\ toast' = "Expense Updated"
        /\ UNCHANGED isFormOpen

ExpenseForm_handleSubmit ==
    LET formData == Value(expenseForm)
        expenseData == [amount |-> parseFloat(formData.amount),
                        categoryId |-> formData.categoryId,
                        description |-> formData.description,
                        date |-> formData.date,
                        type |-> formData.type]
    IN  /\ ExpenseFormMounted
        /\ TransactionsOnly
        /\ submitted' = TRUE
        /\ IF ~TruthyString(formData.amount) \/ ~TruthyString(formData.categoryId)
           THEN /\ toast' = NoToast
                /\ NoSave
                /\ UNCHANGED <<expenses, isFormOpen, editingExpense, expenseForm>>
           ELSE /\ IF editingExpense # Null
                   THEN Index_handleEditExpense(Value(editingExpense).id, expenseData)
                   ELSE Index_handleAddExpense(expenseData)
                /\ SaveEffects(TRUE, FALSE, FALSE)
                \* formData is reset; the form unmounts when Index no longer shows it
                /\ expenseForm' = IF isFormOpen' \/ editingExpense' # Null
                                  THEN Some(EmptyExpenseForm) ELSE Null

\* onClose: the Cancel button and the Dialog's onOpenChange
Index_onClose ==
    /\ ExpenseFormMounted
    /\ isFormOpen' = FALSE
    /\ editingExpense' = Null
    /\ expenseForm' = Null
    /\ toast' = NoToast
    /\ submitted' = FALSE
    /\ NoSave
    /\ UNCHANGED expenses
    /\ TransactionsOnly

\* ExpenseList's delete button
Index_handleDeleteExpense(id) ==
    /\ NoDialogOpen
    /\ \E i \in DOMAIN filteredExpenses : filteredExpenses[i].id = id
    /\ expenses' = FilterOutId(expenses, id)
    /\ toast' = "Expense Deleted"
    /\ submitted' = FALSE
    /\ SaveEffects(TRUE, FALSE, FALSE)
    /\ UNCHANGED <<isFormOpen, editingExpense, expenseForm>>
    /\ TransactionsOnly

-----------------------------------------------------------------------------
(* CategoryManager.                                                        *)

EmptyCategoryForm == [name |-> ""]

CategoryManagerOnly ==
    UNCHANGED <<now, expenses, budgets, filters, isFormOpen, editingExpense,
                expenseForm, budgetTracker, expenseList>>

\* String.prototype.trim on the names the model types
trim_nothing(s) == s

trim(s) == IF s = " " THEN "" ELSE s

CategoryManager_openAddForm ==
    /\ NoDialogOpen
    /\ categoryManager' = [isFormOpen |-> TRUE, editingCategory |-> Null,
                           formData |-> EmptyCategoryForm]
    /\ toast' = NoToast
    /\ submitted' = FALSE
    /\ NoSave
    /\ UNCHANGED categories
    /\ CategoryManagerOnly

CategoryManager_handleEdit(category) ==
    /\ NoDialogOpen
    /\ Includes(categories, category)
    /\ categoryManager' = [isFormOpen |-> TRUE, editingCategory |-> Some(category),
                           formData |-> [name |-> category.name]]
    /\ toast' = NoToast
    /\ submitted' = FALSE
    /\ NoSave
    /\ UNCHANGED categories
    /\ CategoryManagerOnly

CategoryManager_handleDelete(categoryId) ==
    /\ NoDialogOpen
    /\ categoryId \in CategoryIds
    /\ categories' = FilterOutId(categories, categoryId)
    /\ toast' = "Category Deleted"
    /\ submitted' = FALSE
    /\ SaveEffects(FALSE, TRUE, FALSE)
    /\ UNCHANGED categoryManager
    /\ CategoryManagerOnly

CategoryManager_nameChange(text) ==
    /\ categoryManager.isFormOpen
    /\ categoryManager' = [categoryManager EXCEPT !.formData.name = text]
    /\ toast' = NoToast
    /\ submitted' = FALSE
    /\ NoSave
    /\ UNCHANGED categories
    /\ CategoryManagerOnly

CategoryManager_handleSubmit ==
    LET formData == categoryManager.formData
        editingCategory == categoryManager.editingCategory
        Edited(cat) == [cat EXCEPT !.name = formData.name]
        newCategory == [id |-> DateNowString, name |-> formData.name]
        Reset == categoryManager' = [isFormOpen |-> FALSE, editingCategory |-> Null,
                                     formData |-> EmptyCategoryForm]
    IN  /\ categoryManager.isFormOpen
        /\ CategoryManagerOnly
        /\ submitted' = TRUE
        /\ IF ~TruthyString(trim(formData.name))
           THEN /\ toast' = "Error: Category name is required."
                /\ NoSave
                /\ UNCHANGED <<categories, categoryManager>>
           ELSE IF editingCategory # Null
           THEN /\ categories' = MapById(categories, Value(editingCategory).id,
                                         [cat \in Range(categories) |-> Edited(cat)])
                /\ toast' = "Category Updated"
                /\ SaveEffects(FALSE, TRUE, FALSE)
                /\ Reset
           ELSE /\ categories' = Append(categories, newCategory)
                /\ toast' = "Category Added"
                /\ SaveEffects(FALSE, TRUE, FALSE)
                /\ Reset

CategoryManager_cancel ==
    /\ categoryManager.isFormOpen
    /\ categoryManager' = [categoryManager EXCEPT !.isFormOpen = FALSE]
    /\ toast' = NoToast
    /\ submitted' = FALSE
    /\ NoSave
    /\ UNCHANGED categories
    /\ CategoryManagerOnly

CategoryManager_onOpenChange ==
    /\ categoryManager.isFormOpen
    /\ categoryManager' = [isFormOpen |-> FALSE, editingCategory |-> Null,
                           formData |-> EmptyCategoryForm]
    /\ toast' = NoToast
    /\ submitted' = FALSE
    /\ NoSave
    /\ UNCHANGED categories
    /\ CategoryManagerOnly

-----------------------------------------------------------------------------
(* FilterControls and Index: the filter.                                   *)

InitialFilters ==
    [startDate |-> startOfMonth(DateObj(Epoch)),
     endDate |-> endOfMonth(DateObj(Epoch)),
     categories |-> <<>>,
     minAmount |-> Null,
     maxAmount |-> Null,
     type |-> "all"]

SetFilters(next) ==
    /\ NoDialogOpen
    /\ filters' = next
    /\ toast' = NoToast
    /\ submitted' = FALSE
    /\ NoSave
    /\ UNCHANGED <<now, expenses, categories, budgets, isFormOpen, editingExpense,
                   expenseForm, budgetTracker, categoryManager, expenseList>>

\* the filters goToPreviousMonth sets
PreviousMonthFilters(prev) ==
    LET newDate == subMonths(prev.startDate, 1)
    IN  [prev EXCEPT !.startDate = startOfMonth(newDate), !.endDate = endOfMonth(newDate)]

NextMonthFilters_startOnly(prev) ==
    LET newDate == addMonths(prev.startDate, 1)
    IN  [prev EXCEPT !.startDate = startOfMonth(newDate)]

\* the filters goToNextMonth sets
NextMonthFilters(prev) ==
    LET newDate == addMonths(prev.startDate, 1)
    IN  [prev EXCEPT !.startDate = startOfMonth(newDate), !.endDate = endOfMonth(newDate)]

Index_goToPreviousMonth == SetFilters(PreviousMonthFilters(filters))

Index_goToNextMonth == SetFilters(NextMonthFilters(filters))

FilterControls_handleCategoryToggle(categoryId) ==
    LET Other(id) == id # categoryId
    IN  /\ categoryId \in CategoryIds
        /\ SetFilters([filters EXCEPT !.categories =
                          IF Includes(@, categoryId) THEN SelectSeq(@, Other)
                          ELSE Append(@, categoryId)])

\* the Clear (n) button, shown while a category is selected
FilterControls_clearCategoryFilters ==
    /\ Len(filters.categories) > 0
    /\ SetFilters([filters EXCEPT !.categories = <<>>])

FilterControls_setQuickDateRange(range) ==
    LET today == DateObj(now)
        lastMonth == subMonths(today, 1)
        startDate == CASE range = "thisMonth" -> startOfMonth(today)
                       [] range = "lastMonth" -> startOfMonth(lastMonth)
                       [] range = "thisYear" -> startOfYear(today)
                       [] range = "last90Days" -> subMonths(today, 3)
        endDate == CASE range = "thisMonth" -> endOfMonth(today)
                     [] range = "lastMonth" -> endOfMonth(lastMonth)
                     [] range = "thisYear" -> endOfYear(today)
                     [] range = "last90Days" -> today
    IN  /\ range \in {"thisMonth", "lastMonth", "thisYear", "last90Days"}
        /\ SetFilters([filters EXCEPT !.startDate = startDate, !.endDate = endDate])

\* the Calendar's onSelect: the chosen day at its first instant
FilterControls_startDateSelect(date) ==
    SetFilters([filters EXCEPT !.startDate = startOfDay(date)])

FilterControls_endDateSelect(date) ==
    SetFilters([filters EXCEPT !.endDate = startOfDay(date)])

FilterControls_typeChange(value) ==
    SetFilters([filters EXCEPT !.type = value])

\* e.target.value ? parseFloat(e.target.value) : undefined
AmountBound(text) == IF TruthyString(text) THEN Some(parseFloat(text)) ELSE Null

FilterControls_minAmountChange(text) ==
    SetFilters([filters EXCEPT !.minAmount = AmountBound(text)])

FilterControls_maxAmountChange(text) ==
    SetFilters([filters EXCEPT !.maxAmount = AmountBound(text)])

FilterControls_clearFilters ==
    SetFilters([filters EXCEPT !.categories = <<>>, !.minAmount = Null,
                               !.maxAmount = Null, !.type = "all"])

-----------------------------------------------------------------------------
(* The application once mounted, with two of the predefined categories and *)
(* no transaction or budget in storage.                                    *)

\* ExpenseList's useState values
InitialExpenseList == [searchTerm |-> "", sortField |-> "date", sortDirection |-> "desc"]

StoredCategories ==
    <<[id |-> "1", name |-> "Food & Dining"],
      [id |-> "2", name |-> "Transportation"]>>

ClosedBudgetTracker ==
    [isFormOpen |-> FALSE, editingBudget |-> Null, formData |-> EmptyBudgetForm]

ClosedCategoryManager ==
    [isFormOpen |-> FALSE, editingCategory |-> Null, formData |-> EmptyCategoryForm]

\* no effect of the first commit is pending
NoEffects == [pending |-> "none", set |-> {}]

Mounted(e, c, b) ==
    /\ now = Epoch
    /\ expenses = e
    /\ categories = c
    /\ budgets = b
    /\ filters = InitialFilters
    /\ isFormOpen = FALSE
    /\ editingExpense = Null
    /\ expenseForm = Null
    /\ budgetTracker = ClosedBudgetTracker
    /\ categoryManager = ClosedCategoryManager
    /\ expenseList = InitialExpenseList
    /\ storage = [expenses |-> Some(StringifyExpenses(e)),
                  categories |-> Some(StringifyCategories(c)),
                  budgets |-> Some(StringifyBudgets(b))]
    /\ writes = <<>>
    /\ effects = NoEffects
    /\ toast = NoToast
    /\ submitted = FALSE

Init == Mounted(<<>>, StoredCategories, <<>>)

-----------------------------------------------------------------------------
(* What the user types and picks.                                          *)

ExpenseAmountTexts == {"", "-5", "5"}
BudgetAmountTexts == {"", "0", "10"}
CategoryNameTexts == {"", " ", "Rent"}
Periods == {"weekly", "monthly"}
TransactionTypes == {"income", "expense"}

ClockRuns == now < Epoch + MaxTicks

-----------------------------------------------------------------------------
(* The whole application.  A session works on one collection: the handlers *)
(* of a component act while the other two collections are as loaded.      *)

TransactionActions ==
    \/ Len(expenses) < MaxExpenses /\ Index_openAddTransaction
    \/ \E i \in DOMAIN expenses : ExpenseList_onEdit(expenses[i])
    \/ \E text \in ExpenseAmountTexts : ExpenseForm_amountChange(text)
    \/ \E value \in CategoryIds : ExpenseForm_categoryChange(value)
    \/ \E value \in TransactionTypes : ExpenseForm_typeChange(value)
    \/ ExpenseForm_handleSubmit
    \/ Index_onClose
    \/ \E i \in DOMAIN expenses : Index_handleDeleteExpense(expenses[i].id)

BudgetFormActions ==
    \/ Len(budgets) < MaxBudgets /\ BudgetTracker_openAddForm
    \/ \E i \in DOMAIN budgets : BudgetTracker_handleEdit(budgets[i])
    \/ \E i \in DOMAIN budgets : BudgetTracker_handleDelete(budgets[i].id)
    \/ \E value \in Periods : BudgetTracker_periodChange(value)
    \/ \E text \in BudgetAmountTexts : BudgetTracker_amountChange(text)
    \/ BudgetTracker_handleSubmit
    \/ BudgetTracker_cancel
    \/ BudgetTracker_onOpenChange

BudgetActions ==
    \/ BudgetFormActions
    \/ \E value \in CategoryIds : BudgetTracker_categoryChange(value)

CategoryActions ==
    \/ Len(categories) < MaxCategories /\ CategoryManager_openAddForm
    \/ \E i \in DOMAIN categories : CategoryManager_handleEdit(categories[i])
    \/ \E i \in DOMAIN categories : CategoryManager_handleDelete(categories[i].id)
    \/ \E text \in CategoryNameTexts : CategoryManager_nameChange(text)
    \/ CategoryManager_handleSubmit
    \/ CategoryManager_cancel
    \/ CategoryManager_onOpenChange

ExpensesAsLoaded == expenses = <<>> /\ ~ExpenseFormMounted
BudgetsAsLoaded == budgets = <<>> /\ budgetTracker = ClosedBudgetTracker
CategoriesAsLoaded ==
    categories = StoredCategories /\ categoryManager = ClosedCategoryManager

Next ==
    \/ ClockRuns /\ Tick
    \/ BudgetsAsLoaded /\ CategoriesAsLoaded /\ TransactionActions
    \/ ExpensesAsLoaded /\ CategoriesAsLoaded /\ BudgetActions
    \/ ExpensesAsLoaded /\ BudgetsAsLoaded /\ CategoryActions

Spec == Init /\ [][Next]_vars

-----------------------------------------------------------------------------
(* The budget dialog alone, as the user drives it.                         *)

NextBudget ==
    \/ ClockRuns /\ Tick
    \/ BudgetActions

SpecBudget == Init /\ [][NextBudget]_vars

\* The same with the category Select's onValueChange called with any category,
\* as a test harness calls it: the rendered items do not restrict the handler.
NextBudgetDirect ==
    \/ ClockRuns /\ Tick
    \/ BudgetFormActions
    \/ \E value \in CategoryIds : BudgetTracker_setCategoryId(value)

SpecBudgetDirect == Init /\ [][NextBudgetDirect]_vars

-----------------------------------------------------------------------------
(* Budget cards over transactions already in storage: the clock runs and   *)
(* the filter changes while BudgetTracker shows spent amount and status.   *)

\* a stored transaction: amount, category, type, date
Stored(amount, categoryId, type, t) ==
    [id |-> "", amount |-> amount, categoryId |-> categoryId, description |-> "",
     date |-> DateObj(t), type |-> type, createdAt |-> IsoString(t)]

\* transactions in and out of the month and the week the clock starts in
SpentSamples ==
    { Stored(5, "1", "expense", Epoch),
      Stored(8, "1", "expense", Epoch),
      Stored(85, "1", "expense", Epoch),
      Stored(5, "2", "expense", Epoch),
      Stored(5, "1", "income", Epoch),
      Stored(5, "1", "expense", Epoch - TicksPerDay),
      Stored(5, "1", "expense", Epoch + TicksPerWeek) }

\* the lists of at most MaxDrawn of the samples, each with its own id
Drawn(samples) ==
    LET lists == UNION {[1..n -> samples] : n \in 0..MaxDrawn}
    IN  {[i \in DOMAIN l |-> [l[i] EXCEPT !.id = ToString(i)]] : l \in lists}

StoredBudgets ==
    { <<[id |-> "1", categoryId |-> "1", amount |-> amount, period |-> period,
         createdAt |-> IsoString(Epoch)]>> :
        amount \in {10, 100}, period \in Periods }

InitSpent ==
    \E e \in Drawn(SpentSamples), b \in StoredBudgets : Mounted(e, StoredCategories, b)

FilterTypes == {"all", "income", "expense"}

\* month navigation stays within MaxMonthSteps months of the first month
MonthInReach(d) ==
    /\ GetTime(d) >= Epoch - MaxMonthSteps * TicksPerMonth
    /\ GetTime(d) < Epoch + (MaxMonthSteps + 1) * TicksPerMonth

NextSpent ==
    \/ ClockRuns /\ Tick
    \/ \E value \in FilterTypes : FilterControls_typeChange(value)
    \/ MonthInReach(subMonths(filters.startDate, 1)) /\ Index_goToPreviousMonth
    \/ MonthInReach(addMonths(filters.startDate, 1)) /\ Index_goToNextMonth

SpecSpent == InitSpent /\ [][NextSpent]_vars

-----------------------------------------------------------------------------
(* The filter controls over transactions already in storage.               *)

FilterSamples ==
    { Stored(5, "1", "expense", Epoch),
      Stored(-5, "1", "expense", Epoch),
      Stored(0, "2", "income", Epoch + TicksPerDay),
      Stored(8, "2", "expense", Epoch - TicksPerDay) }

InitFilter == \E e \in Drawn(FilterSamples) : Mounted(e, StoredCategories, <<>>)

FilterAmountTexts == {"", "0", "5"}
QuickRanges == {"thisMonth", "lastMonth", "thisYear", "last90Days"}
\* the days the user picks in a Calendar: yesterday, today, tomorrow
PickedDays == {DateObj(Epoch + d * TicksPerDay) : d \in {-1, 0, 1}}

NextFilter ==
    \/ MonthInReach(subMonths(filters.startDate, 1)) /\ Index_goToPreviousMonth
    \/ MonthInReach(addMonths(filters.startDate, 1)) /\ Index_goToNextMonth
    \/ \E categoryId \in CategoryIds : FilterControls_handleCategoryToggle(categoryId)
    \/ FilterControls_clearCategoryFilters
    \/ \E range \in QuickRanges : FilterControls_setQuickDateRange(range)
    \/ \E date \in PickedDays : FilterControls_startDateSelect(date)
    \/ \E date \in PickedDays : FilterControls_endDateSelect(date)
    \/ \E value \in FilterTypes : FilterControls_typeChange(value)
    \/ \E text \in FilterAmountTexts : FilterControls_minAmountChange(text)
    \/ \E text \in FilterAmountTexts : FilterControls_maxAmountChange(text)
    \/ FilterControls_clearFilters

SpecFilter == InitFilter /\ [][NextFilter]_vars

-----------------------------------------------------------------------------
(* The category manager over transactions and budgets already in storage.  *)

CategorySamples ==
    { Stored(5, "1", "expense", Epoch),
      Stored(5, "2", "income", Epoch) }

CategoryBudgets ==
    { <<>>,
      <<[id |-> "1", categoryId |-> "2", amount |-> 10, period |-> "monthly",
         createdAt |-> IsoString(Epoch)]>> }

InitCategories ==
    \E e \in Drawn(CategorySamples), b \in CategoryBudgets :
        Mounted(e, StoredCategories, b)

NextCategories ==
    \/ ClockRuns /\ Tick
    \/ CategoryActions

SpecCategories == InitCategories /\ [][NextCategories]_vars

-----------------------------------------------------------------------------
(* Startup: Index mounts, its load effect reads the three keys and its     *)
(* save effects write them.  Between sessions a key can be removed from    *)
(* the browser's storage.                                                  *)

getDefaultCategories ==
    <<[id |-> "1", name |-> "Food & Dining"],
      [id |-> "2", name |-> "Transportation"],
      [id |-> "3", name |-> "Utilities"],
      [id |-> "4", name |-> "Entertainment"],
      [id |-> "5", name |-> "Shopping"],
      [id |-> "6", name |-> "Healthcare"],
      [id |-> "7", name |-> "Education"],
      [id |-> "8", name |-> "Salary"],
      [id |-> "9", name |-> "Housing"],
      [id |-> "10", name |-> "Personal Care"]>>

\* JSON.parse(savedExpenses).map(expense => ({...expense, date: new Date(expense.date)}))
ParseExpenses(list) == [i \in DOMAIN list |-> [list[i] EXCEPT !.date = NewDate(@)]]

\* what the collection is once the load effect has run: the useState value
\* unless the key is present
LoadExpenses(saved) == IF saved # Null THEN ParseExpenses(Value(saved)) ELSE <<>>
LoadCategories_emptyAsAbsent(saved) ==
    IF saved # Null /\ Value(saved) # <<>> THEN Value(saved) ELSE getDefaultCategories
LoadCategories(saved) == IF saved # Null THEN Value(saved) ELSE getDefaultCategories
LoadBudgets(saved) == IF saved # Null THEN Value(saved) ELSE <<>>

\* The page is loaded (or reloaded): state is the useState values, the load
\* effect reads the keys, the three save effects write the useState values,
\* and after the re-render the save effect of every collection that was set
\* writes it again.
Index_mount ==
    /\ expenses' = LoadExpenses(storage.expenses)
    /\ categories' = LoadCategories(storage.categories)
    /\ budgets' = LoadBudgets(storage.budgets)
    /\ filters' = [InitialFilters EXCEPT !.startDate = startOfMonth(DateObj(now)),
                                         !.endDate = endOfMonth(DateObj(now))]
    /\ isFormOpen' = FALSE
    /\ editingExpense' = Null
    /\ expenseForm' = Null
    /\ budgetTracker' = ClosedBudgetTracker
    /\ categoryManager' = ClosedCategoryManager
    /\ expenseList' = InitialExpenseList
    /\ storage' = [expenses   |-> Some(StringifyExpenses(expenses')),
                   categories |-> Some(StringifyCategories(categories')),
                   budgets    |-> Some(StringifyBudgets(budgets'))]
    /\ writes' = <<"expenses", "categories", "budgets">>
                 \o (IF storage.expenses # Null THEN <<"expenses">> ELSE <<>>)
                 \o (IF storage.categories # Null THEN <<"categories">> ELSE <<>>)
                 \o (IF storage.budgets # Null THEN <<"budgets">> ELSE <<>>)
    /\ toast' = NoToast
    /\ submitted' = FALSE
    /\ UNCHANGED <<now, effects>>

StorageKeys == {"expenses", "categories", "budgets"}

\* localStorage.removeItem, done outside the application (site data cleared)
Storage_removeItem(key) ==
    /\ key \in StorageKeys
    /\ storage' = [storage EXCEPT ![key] = Null]
    /\ writes' = <<>>
    /\ toast' = NoToast
    /\ submitted' = FALSE
    /\ UNCHANGED <<now, expenses, categories, budgets, filters, isFormOpen,
                   editingExpense, expenseForm, budgetTracker, categoryManager,
                   expenseList, effects>>

\* stored transactions dated at the start and in the middle of a day
StorageSamples ==
    { Stored(5, "1", "expense", Epoch),
      Stored(8, "2", "income", Epoch + 1) }

InitStorage ==
    \E e \in Drawn(StorageSamples), c \in {StoredCategories, <<>>},
       b \in CategoryBudgets :
        Mounted(e, c, b)

NextStorage ==
    \/ ClockRuns /\ Tick
    \/ Index_mount
    \/ \E key \in StorageKeys : Storage_removeItem(key)
    \/ \E i \in DOMAIN expenses : Index_handleDeleteExpense(expenses[i].id)

SpecStorage == InitStorage /\ [][NextStorage]_vars

-----------------------------------------------------------------------------
(* Category totals: the exported calculateCategoryTotals and the pie-chart *)
(* data of ChartsSection, which receives the filtered transactions.        *)

\* type is Null when the caller supplies none
calculateCategoryTotals(list, cats, type) ==
    LET Item(category) ==
            LET Referencing(expense) ==
                    /\ expense.categoryId = category.id
                    /\ IF type # Null THEN expense.type = Value(type) ELSE TRUE
                categoryExpenses == SelectSeq(list, Referencing)
            IN  [category |-> category,
                 total |-> SumAmounts(categoryExpenses),
                 count |-> Len(categoryExpenses)]
        Positive(item) == item.total > 0
    IN  SelectSeq([i \in DOMAIN cats |-> Item(cats[i])], Positive)

ChartsSectionExpenses == filteredExpenses

categoryData ==
    LET Item(category) ==
            LET Referencing(expense) ==
                    expense.categoryId = category.id /\ expense.type = "expense"
            IN  [name |-> category.name,
                 value |-> SumAmounts(SelectSeq(ChartsSectionExpenses, Referencing))]
        Positive(item) == item.value > 0
    IN  SelectSeq([i \in DOMAIN categories |-> Item(categories[i])], Positive)

\* the optional third argument
TotalsTypes == {Null, Some("income"), Some("expense")}

\* stored transactions: both kinds, a zero and a negative amount, and two that
\* reference a category that no longer exists
TotalsSamples ==
    { Stored(5, "1", "expense", Epoch),
      Stored(8, "1", "income", Epoch),
      Stored(-5, "2", "expense", Epoch),
      Stored(0, "3", "expense", Epoch),
      Stored(5, "3", "expense", Epoch) }

InitTotals == \E e \in Drawn(TotalsSamples) : Mounted(e, StoredCategories, <<>>)

NextTotals ==
    \/ \E value \in FilterTypes : FilterControls_typeChange(value)
    \/ \E i \in DOMAIN categories : CategoryManager_handleDelete(categories[i].id)
    \/ \E i \in DOMAIN expenses : Index_handleDeleteExpense(expenses[i].id)

SpecTotals == InitTotals /\ [][NextTotals]_vars

-----------------------------------------------------------------------------
(* C4: no two budgets of the collection share a (categoryId, period) pair, *)
(* after any sequence of operations of the budget dialog.                  *)

BudgetPairsUnique ==
    \A i, j \in DOMAIN budgets :
        i # j => \/ budgets[i].categoryId # budgets[j].categoryId
                 \/ budgets[i].period # budgets[j].period

\* what does hold: budgets with distinct ids have distinct pairs
BudgetIdsUnique ==
    \A i, j \in DOMAIN budgets : i # j => budgets[i].id # budgets[j].id

BudgetPairsUniqueWhileIdsUnique == BudgetIdsUnique => BudgetPairsUnique

-----------------------------------------------------------------------------
(* C5: every budget of the collection has amount > 0, and a submission of  *)
(* the budget dialog (add or edit) whose parsed amount is <= 0 raises the  *)
(* "must be greater than 0" notice and leaves the collection as it was.    *)

BudgetAmountsPositive == \A i \in DOMAIN budgets : budgets[i].amount > 0

NonPositiveSubmission ==
    /\ BudgetTracker_handleSubmit
    /\ TruthyString(budgetTracker.formData.categoryId)
    /\ TruthyString(budgetTracker.formData.amount)
    /\ parseFloat(budgetTracker.formData.amount) <= 0

NonPositiveBudgetRejected ==
    /\ []BudgetAmountsPositive
    /\ [][NonPositiveSubmission =>
            /\ budgets' = budgets
            /\ toast' = "Error: Budget amount must be greater than 0."]_vars

\* an edit of an existing budget to a non-positive amount has been rejected
NonPositiveEditRejected ==
    /\ toast = "Error: Budget amount must be greater than 0."
    /\ budgetTracker.editingBudget # Null
    /\ budgets # <<>>

-----------------------------------------------------------------------------
(* C8: submitting the add-budget form for a (categoryId, period) pair that *)
(* already has a budget raises the "Budget Exists" notice and changes      *)
(* neither the collection nor the form, which stays open; a valid          *)
(* submission in edit mode goes through although its pair exists.          *)

ValidBudgetSubmission ==
    /\ BudgetTracker_handleSubmit
    /\ TruthyString(budgetTracker.formData.categoryId)
    /\ TruthyString(budgetTracker.formData.amount)
    /\ parseFloat(budgetTracker.formData.amount) > 0

PairTaken ==
    \E i \in DOMAIN budgets :
        /\ budgets[i].categoryId = budgetTracker.formData.categoryId
        /\ budgets[i].period = budgetTracker.formData.period

DuplicateBudgetRejected ==
    [][ /\ (ValidBudgetSubmission /\ budgetTracker.editingBudget = Null /\ PairTaken)
            => /\ budgets' = budgets
               /\ Len(budgets') = Len(budgets)
               /\ budgetTracker' = budgetTracker
               /\ budgetTracker'.isFormOpen
               /\ toast' = "Budget Exists"
        /\ (ValidBudgetSubmission /\ budgetTracker.editingBudget # Null)
            => /\ toast' = "Budget Updated"
               /\ Len(budgets') = Len(budgets) ]_vars

\* a duplicate has been rejected: the form is still open on the taken pair
DuplicateWasRejected ==
    /\ toast = "Budget Exists"
    /\ budgetTracker.isFormOpen
    /\ PairTaken

-----------------------------------------------------------------------------
(* C2: for a budget of amount A > 0 with spent S the status is exceeded    *)
(* iff S >= A, warning iff 80% of A <= S < A, moderate iff 50% of A <= S   *)
(* < 80% of A, good otherwise; A = 100 with S = 85 is warning, 15 left.    *)

BudgetStatusClassified ==
    \A i \in DOMAIN budgets :
        LET budget == budgets[i]
            spent == getSpentAmount(budget)
            status == getBudgetStatus(budget, spent)
        IN  budget.amount > 0 =>
              /\ status = "exceeded" <=> spent >= budget.amount
              /\ status = "warning" <=>
                    (5 * spent >= 4 * budget.amount /\ spent < budget.amount)
              /\ status = "moderate" <=>
                    (2 * spent >= budget.amount /\ 5 * spent < 4 * budget.amount)
              /\ status = "good" <=> 2 * spent < budget.amount
              /\ (budget.amount = 100 /\ spent = 85) =>
                    (status = "warning" /\ Remaining(budget, spent) = 15)

\* a budget spent to exactly 80% shows warning
SpentExactlyEightyPercent ==
    \E i \in DOMAIN budgets :
        /\ 5 * getSpentAmount(budgets[i]) = 4 * budgets[i].amount
        /\ getBudgetStatus(budgets[i], getSpentAmount(budgets[i])) = "warning"

-----------------------------------------------------------------------------
(* C3: a budget's spent amount is the sum of the amounts of the expense-   *)
(* kind transactions of the collection that have the budget's category and *)
(* are dated in the week (weekly) or month (monthly) holding the clock.    *)

SpentAsClaimed(budget) ==
    LET today == DateObj(now)
        Counts(expense) ==
            /\ expense.type = "expense"
            /\ expense.categoryId = budget.categoryId
            /\ IF budget.period = "weekly"
               THEN startOfWeek(expense.date) = startOfWeek(today)
               ELSE startOfMonth(expense.date) = startOfMonth(today)
    IN  SumAmounts(SelectSeq(expenses, Counts))

SpentIsSumOverCollection ==
    \A i \in DOMAIN budgets : getSpentAmount(budgets[i]) = SpentAsClaimed(budgets[i])

-----------------------------------------------------------------------------
(* C1: a transaction is in the filtered set iff its date is within         *)
(* [startDate, endDate], the category set is empty or holds its category,  *)
(* minAmount is unset or <= its amount, maxAmount is unset or >= its       *)
(* amount, and the type is all or its type; a bound of 0 is a bound.       *)

MatchesAsClaimed(expense) ==
    /\ GetTime(expense.date) >= GetTime(filters.startDate)
    /\ GetTime(expense.date) <= GetTime(filters.endDate)
    /\ filters.categories = <<>> \/ Includes(filters.categories, expense.categoryId)
    /\ filters.minAmount = Null \/ expense.amount >= Value(filters.minAmount)
    /\ filters.maxAmount = Null \/ expense.amount <= Value(filters.maxAmount)
    /\ filters.type = "all" \/ expense.type = filters.type

FilterContract ==
    /\ \A i \in DOMAIN expenses :
          Includes(filteredExpenses, expenses[i]) <=> MatchesAsClaimed(expenses[i])
    /\ filteredExpenses = SelectSeq(expenses, MatchesAsClaimed)

-----------------------------------------------------------------------------
(* C6: after any sequence of add-transaction and edit-transaction form     *)
(* submissions every transaction in the collection has a non-negative      *)
(* amount.                                                                 *)

AmountsNonNegative == \A i \in DOMAIN expenses : expenses[i].amount >= 0

-----------------------------------------------------------------------------
(* C7: submitting the transaction form or the budget form with a missing   *)
(* category or a missing amount leaves the collection unchanged and raises *)
(* a user-facing notice.                                                   *)

MissingTransactionField ==
    /\ ExpenseFormMounted
    /\ Value(expenseForm).amount = "" \/ Value(expenseForm).categoryId = ""

MissingBudgetField ==
    /\ budgetTracker.isFormOpen
    /\ budgetTracker.formData.amount = "" \/ budgetTracker.formData.categoryId = ""

MissingBudgetFieldBlockedWithNotice ==
    [][ submitted' /\ MissingBudgetField
        => /\ budgets' = budgets
           /\ toast' = "Error: Please fill in all required fields." ]_vars

-----------------------------------------------------------------------------
(* C9: deleting a category removes that one category and nothing else: the *)
(* transactions and the budgets are unchanged, and every transaction or    *)
(* budget whose category id no longer exists resolves to the name          *)
(* 'Unknown'.                                                              *)

RemoveAt(s, i) == SubSeq(s, 1, i - 1) \o SubSeq(s, i + 1, Len(s))

OrphansResolveToUnknown ==
    /\ \A i \in DOMAIN expenses :
          expenses[i].categoryId \notin CategoryIds
          => getCategoryName(expenses[i].categoryId) = "Unknown"
    /\ \A i \in DOMAIN budgets :
          budgets[i].categoryId \notin CategoryIds
          => getCategoryName(budgets[i].categoryId) = "Unknown"

CategoryDeleteFrame ==
    /\ \E i \in DOMAIN categories : categories' = RemoveAt(categories, i)
    /\ expenses' = expenses
    /\ budgets' = budgets
    /\ storage'.expenses = storage.expenses
    /\ storage'.budgets = storage.budgets

CategoryDeleteRemovesOnlyThat ==
    [][toast' = "Category Deleted"
       => CategoryDeleteFrame /\ OrphansResolveToUnknown']_vars

CategoryIdsUnique ==
    \A i, j \in DOMAIN categories : categories[i].id = categories[j].id => i = j

\* what holds of the code: the claim, for categories whose ids differ
CategoryDeleteRemovesOnlyThatWhileIdsUnique ==
    [][toast' = "Category Deleted" /\ CategoryIdsUnique
       => CategoryDeleteFrame /\ OrphansResolveToUnknown']_vars

\* a referenced category was deleted and its transaction remains
OrphanAfterDelete ==
    /\ toast = "Category Deleted"
    /\ \E i \in DOMAIN expenses : expenses[i].categoryId \notin CategoryIds

-----------------------------------------------------------------------------
(* C10: every add, edit or delete of a transaction, category or budget     *)
(* writes the storage key of that collection, once, with the serialization *)
(* of the whole new collection, and writes no other key; the stored        *)
(* collection then equals the in-memory one.                               *)

StorageKeyOf(title) ==
    CASE title \in {"Expense Added", "Expense Updated", "Expense Deleted"}
            -> <<"expenses">>
      [] title \in {"Category Added", "Category Updated", "Category Deleted"}
            -> <<"categories">>
      [] title \in {"Budget Added", "Budget Updated", "Budget Deleted"}
            -> <<"budgets">>
      [] OTHER -> <<>>

StoredEqualsMemory ==
    /\ storage.expenses = Some(StringifyExpenses(expenses))
    /\ storage.categories = Some(StringifyCategories(categories))
    /\ storage.budgets = Some(StringifyBudgets(budgets))

MutationWritesItsKey ==
    /\ []StoredEqualsMemory
    /\ [][ /\ writes' = StorageKeyOf(toast')
           /\ StorageKeyOf(toast') = <<>>
              => UNCHANGED <<expenses, categories, budgets>>
           /\ \A key \in {"expenses", "categories", "budgets"} :
                 ~Includes(writes', key) => storage'[key] = storage[key] ]_vars

BudgetWritten ==
    /\ toast = "Budget Added"
    /\ writes = <<"budgets">>
    /\ budgets # <<>>
    /\ storage.budgets = Some(StringifyBudgets(budgets))
    /\ Value(storage.budgets) # budgets

-----------------------------------------------------------------------------
(* C11: serializing a transaction collection to the 'expenses' key and     *)
(* loading it back at startup gives, in the same order, transactions with  *)
(* the same id, amount, categoryId, description and type and with a date   *)
(* equal to the original date.                                             *)

RoundTripped(original, loaded) ==
    /\ Len(loaded) = Len(original)
    /\ \A i \in DOMAIN original :
          /\ loaded[i].id = original[i].id
          /\ loaded[i].amount = original[i].amount
          /\ loaded[i].categoryId = original[i].categoryId
          /\ loaded[i].description = original[i].description
          /\ loaded[i].type = original[i].type
          /\ loaded[i].date = original[i].date

MountStep == Len(writes') >= 3

-----------------------------------------------------------------------------
(* C12: at startup an absent key gives the empty collection for            *)
(* transactions and budgets and the ten predefined categories (ids '1' to  *)
(* '10') for categories; a present key gives exactly the stored array.     *)

TenPredefined(list) ==
    /\ Len(list) = 10
    /\ \A i \in 1..10 : list[i].id = ToString(i)

StartupLoadsOrDefaults ==
    [][MountStep =>
        /\ storage.expenses = Null => expenses' = <<>>
        /\ storage.budgets = Null => budgets' = <<>>
        /\ storage.categories = Null => TenPredefined(categories')
        /\ storage.expenses # Null
           => RoundTripped(ParseExpenses(Value(storage.expenses)), expenses')
        /\ storage.categories # Null => categories' = Value(storage.categories)
        /\ storage.budgets # Null => budgets' = Value(storage.budgets)]_vars

\* the page has been loaded with no 'categories' key and with a 'budgets' key
DefaultsAfterAbsentKey ==
    /\ writes = <<"expenses", "categories", "budgets", "budgets">>
    /\ TenPredefined(categories)
    /\ expenses = <<>>

-----------------------------------------------------------------------------
(* C13: each entry calculateCategoryTotals returns holds the sum and the   *)
(* count of the transactions referencing its category, of kind 'expense'   *)
(* when no kind is supplied and of the supplied kind otherwise.            *)

KindAsClaimed(type) == IF type = Null THEN "expense" ELSE Value(type)

OfCategoryAndKind(list, categoryId, kind) ==
    LET Counts(expense) == expense.categoryId = categoryId /\ expense.type = kind
    IN  SelectSeq(list, Counts)

CategoryTotalsOfKind ==
    \A type \in TotalsTypes :
        LET result == calculateCategoryTotals(expenses, categories, type)
        IN  \A k \in DOMAIN result :
                LET counted == OfCategoryAndKind(expenses, result[k].category.id,
                                                 KindAsClaimed(type))
                IN  /\ result[k].total = SumAmounts(counted)
                    /\ result[k].count = Len(counted)

\* what holds of the code: the claim, for a supplied kind
CategoryTotalsOfSuppliedKind ==
    \A type \in TotalsTypes \ {Null} :
        LET result == calculateCategoryTotals(expenses, categories, type)
        IN  \A k \in DOMAIN result :
                LET counted == OfCategoryAndKind(expenses, result[k].category.id,
                                                 Value(type))
                IN  /\ result[k].total = SumAmounts(counted)
                    /\ result[k].count = Len(counted)

-----------------------------------------------------------------------------
(* C14: the totals of calculateCategoryTotals(expenses, categories,        *)
(* 'expense') add up to at most the sum of all expense-kind amounts, with  *)
(* equality iff every expense-kind transaction references an existing      *)
(* category.                                                               *)

RECURSIVE SumTotals(_)
SumTotals(items) ==
    IF items = <<>> THEN 0 ELSE Head(items).total + SumTotals(Tail(items))

ExpenseKind(expense) == expense.type = "expense"

AllExpensesReferenceACategory ==
    \A i \in DOMAIN expenses :
        ExpenseKind(expenses[i]) => expenses[i].categoryId \in CategoryIds

TotalsBoundedBySpending ==
    LET totals == SumTotals(calculateCategoryTotals(expenses, categories, Some("expense")))
        spending == SumAmounts(SelectSeq(expenses, ExpenseKind))
    IN  /\ totals <= spending
        /\ totals = spending <=> AllExpensesReferenceACategory

\* what holds of the code: the bound, and equality when every expense-kind
\* transaction references a category, for non-negative amounts
TotalsBoundedWhileAmountsNonNegative ==
    LET totals == SumTotals(calculateCategoryTotals(expenses, categories, Some("expense")))
        spending == SumAmounts(SelectSeq(expenses, ExpenseKind))
    IN  AmountsNonNegative /\ CategoryIdsUnique
        => /\ totals <= spending
           /\ AllExpensesReferenceACategory => totals = spending

-----------------------------------------------------------------------------
(* C15: the category totals hold exactly the categories whose total is     *)
(* non-zero, in the order of the category list.                            *)

NonZeroCategories(type) ==
    LET NonZero(category) ==
            LET Referencing(expense) ==
                    /\ expense.categoryId = category.id
                    /\ type = Null \/ expense.type = Value(type)
            IN  SumAmounts(SelectSeq(expenses, Referencing)) # 0
    IN  SelectSeq(categories, NonZero)

TotalsHoldNonZeroCategories ==
    \A type \in TotalsTypes :
        LET result == calculateCategoryTotals(expenses, categories, type)
        IN  [k \in DOMAIN result |-> result[k].category] = NonZeroCategories(type)

\* what holds of the code: the claim, for non-negative amounts
TotalsHoldNonZeroWhileAmountsNonNegative ==
    AmountsNonNegative => TotalsHoldNonZeroCategories

-----------------------------------------------------------------------------
(* ChartsSection's daily and cumulative series over the filter's range.    *)

DayIndex(d) == GetTime(d) \div TicksPerDay

\* the days from the start's first instant while they are not past the end
DaysFrom(first, last) ==
    LET from == GetTime(startOfDay(first))
        n == IF GetTime(last) < from THEN 0
             ELSE (GetTime(last) - from) \div TicksPerDay + 1
    IN  [k \in 1..n |-> DateObj(from + (k - 1) * TicksPerDay)]

\* date-fns eachDayOfInterval.  With the start after the end, the library
\* either throws a RangeError or gives the days in descending order; which,
\* depends on the installed release, which the repository does not pin.
eachDayOfInterval(interval) ==
    IF GetTime(interval.start) <= GetTime(interval.end)
    THEN {[threw |-> FALSE, days |-> DaysFrom(interval.start, interval.end)]}
    ELSE {[threw |-> TRUE, days |-> <<>>],
          [threw |-> FALSE, days |-> Reverse(DaysFrom(interval.end, interval.start))]}

\* format(day, 'MMM dd'): the month of the year and the day of the month
FormatMonthDay(d) ==
    [month |-> (GetTime(d) \div TicksPerMonth) % MonthsPerYear,
     day |-> (GetTime(d) % TicksPerMonth) \div TicksPerDay]

ChartsSectionDateRange == filters

DailyPoint(day) ==
    LET OnDay(expense) ==
            GetTime(startOfDay(NewDate(expense.date))) = GetTime(startOfDay(day))
        IsExpense(expense) == expense.type = "expense"
        IsIncome(expense) == expense.type = "income"
        dayExpenses == SelectSeq(ChartsSectionExpenses, OnDay)
        expenseAmount == SumAmounts(SelectSeq(dayExpenses, IsExpense))
        incomeAmount == SumAmounts(SelectSeq(dayExpenses, IsIncome))
    IN  [date |-> FormatMonthDay(day), expenses |-> expenseAmount,
         income |-> incomeAmount, net |-> incomeAmount - expenseAmount]

\* the outcomes of a render's getDailyData(): it threw, or its points
getDailyData ==
    { [threw |-> o.threw, points |-> [k \in DOMAIN o.days |-> DailyPoint(o.days[k])]] :
        o \in eachDayOfInterval([start |-> ChartsSectionDateRange.startDate,
                                 end |-> ChartsSectionDateRange.endDate]) }

RECURSIVE Accumulate(_, _, _)
Accumulate(days, cumulativeIncome, cumulativeExpenses) ==
    IF days = <<>> THEN <<>>
    ELSE LET income == cumulativeIncome + Head(days).income
             spent == cumulativeExpenses + Head(days).expenses
         IN  <<[date |-> Head(days).date, cumulativeIncome |-> income,
                cumulativeExpenses |-> spent, balance |-> income - spent]>>
             \o Accumulate(Tail(days), income, spent)

getCumulativeData_perDay(dailyData) ==
    [k \in DOMAIN dailyData |->
        [date |-> dailyData[k].date, cumulativeIncome |-> dailyData[k].income,
         cumulativeExpenses |-> dailyData[k].expenses,
         balance |-> dailyData[k].income - dailyData[k].expenses]]

getCumulativeData(dailyData) == Accumulate(dailyData, 0, 0)

SeriesSamples ==
    { Stored(5, "1", "expense", Epoch),
      Stored(8, "1", "income", Epoch + 1),
      Stored(3, "2", "expense", Epoch + TicksPerDay),
      Stored(10, "2", "income", Epoch - TicksPerDay) }

InitSeries == \E e \in Drawn(SeriesSamples) : Mounted(e, StoredCategories, <<>>)

NextSeries ==
    \/ MonthInReach(subMonths(filters.startDate, 1)) /\ Index_goToPreviousMonth
    \/ MonthInReach(addMonths(filters.startDate, 1)) /\ Index_goToNextMonth
    \/ \E range \in QuickRanges : FilterControls_setQuickDateRange(range)
    \/ \E date \in PickedDays : FilterControls_startDateSelect(date)
    \/ \E date \in PickedDays : FilterControls_endDateSelect(date)
    \/ \E value \in FilterTypes : FilterControls_typeChange(value)

SpecSeries == InitSeries /\ [][NextSeries]_vars

-----------------------------------------------------------------------------
(* C16: for every filter date range the daily series has one point per     *)
(* calendar day from the start date to the end date inclusive, that is     *)
(* (end day - start day) + 1 points whatever the transactions; each point  *)
(* carries the summed income, the summed expense and net = income -        *)
(* expense of the transactions of its day, all three 0 on a day without    *)
(* transactions.                                                           *)

PointsAsClaimed(points) ==
    LET startDay == DayIndex(filters.startDate)
        endDay == DayIndex(filters.endDate)
    IN  /\ Len(points) = (endDay - startDay) + 1
        /\ \A k \in DOMAIN points :
               LET OnDay(expense) == DayIndex(NewDate(expense.date)) = startDay + k - 1
                   Income(expense) == OnDay(expense) /\ expense.type = "income"
                   Expense(expense) == OnDay(expense) /\ expense.type = "expense"
                   income == SumAmounts(SelectSeq(ChartsSectionExpenses, Income))
                   expense == SumAmounts(SelectSeq(ChartsSectionExpenses, Expense))
               IN  /\ points[k].date
                        = FormatMonthDay(DateObj((startDay + k - 1) * TicksPerDay))
                   /\ points[k].income = income
                   /\ points[k].expenses = expense
                   /\ points[k].net = income - expense
                   /\ SelectSeq(ChartsSectionExpenses, OnDay) = <<>>
                        => /\ points[k].income = 0
                           /\ points[k].expenses = 0
                           /\ points[k].net = 0

DailySeriesOnePointPerDay ==
    \A o \in getDailyData : ~o.threw /\ PointsAsClaimed(o.points)

\* what holds of the code: the claim, for a range whose start is not after its end
DailySeriesOnePointPerDayOfOrderedRange ==
    GetTime(filters.startDate) <= GetTime(filters.endDate) => DailySeriesOnePointPerDay

-----------------------------------------------------------------------------
(* C17: the cumulative series has the length and the day order of the      *)
(* daily series; its k-th point holds the sum of the daily income of       *)
(* points 1..k, the sum of the daily expenses of points 1..k, and their    *)
(* difference as balance.                                                  *)

RECURSIVE SumIncome(_)
SumIncome(points) ==
    IF points = <<>> THEN 0 ELSE Head(points).income + SumIncome(Tail(points))

RECURSIVE SumExpenses(_)
SumExpenses(points) ==
    IF points = <<>> THEN 0 ELSE Head(points).expenses + SumExpenses(Tail(points))

CumulativeIsPrefixSums ==
    \A o \in getDailyData :
        ~o.threw =>
            LET cumulative == getCumulativeData(o.points)
            IN  /\ Len(cumulative) = Len(o.points)
                /\ \A k \in DOMAIN cumulative :
                       /\ cumulative[k].date = o.points[k].date
                       /\ cumulative[k].cumulativeIncome
                            = SumIncome(SubSeq(o.points, 1, k))
                       /\ cumulative[k].cumulativeExpenses
                            = SumExpenses(SubSeq(o.points, 1, k))
                       /\ cumulative[k].balance
                            = cumulative[k].cumulativeIncome
                              - cumulative[k].cumulativeExpenses

\* a series whose second day's running totals include the first day's
RunningTotalsCarryOver ==
    \E o \in getDailyData :
        /\ ~o.threw
        /\ \E k \in DOMAIN o.points :
               /\ k > 1
               /\ getCumulativeData(o.points)[k].cumulativeExpenses
                    > o.points[k].expenses
               /\ o.points[k].expenses > 0

-----------------------------------------------------------------------------
(* C18: the displayed progress of a budget is min(spent / amount * 100,    *)
(* 100), so never above 100 even when the spending exceeds the amount; the *)
(* remaining is amount - spent, negative exactly when spent > amount.      *)

ProgressCappedRemainingRaw ==
    \A i \in DOMAIN budgets :
        LET budget == budgets[i]
            spent == getSpentAmount(budget)
            percentage == BudgetCardPercentage(budget, spent)
            remaining == Remaining(budget, spent)
        IN  /\ percentage <= 100
            /\ spent >= budget.amount => percentage = 100
            \* below the amount, the whole part of spent / amount * 100
            /\ spent < budget.amount =>
                  /\ percentage * budget.amount <= spent * 100
                  /\ spent * 100 < (percentage + 1) * budget.amount
            /\ remaining + spent = budget.amount
            /\ remaining < 0 <=> spent > budget.amount
            /\ RemainingLabel(remaining) = "Over budget" <=> spent > budget.amount

\* a budget of 10 with 85 spent shows 100 and 75 over budget
OverspentBudgetShowsFull ==
    \E i \in DOMAIN budgets :
        /\ budgets[i].amount = 10
        /\ getSpentAmount(budgets[i]) = 85
        /\ BudgetCardPercentage(budgets[i], 85) = 100
        /\ Remaining(budgets[i], 85) = -75

-----------------------------------------------------------------------------
(* ExpenseList: the search box and the sortable table over the filtered    *)
(* transactions.                                                           *)

\* the UTF-16 code units of the texts that occur
Chars(s) ==
    CASE s = "" -> <<>>
      [] s = "Lunch" -> <<76, 117, 110, 99, 104>>
      [] s = "bus" -> <<98, 117, 115>>
      [] s = "Shoes" -> <<83, 104, 111, 101, 115>>
      [] s = "UN" -> <<85, 78>>
      [] s = "sho" -> <<115, 104, 111>>
      [] s = "x" -> <<120>>
      [] s = " " -> <<32>>
      [] s = "Rent" -> <<82, 101, 110, 116>>
      [] s = "Unknown" -> <<85, 110, 107, 110, 111, 119, 110>>
      [] s = "Shopping" -> <<83, 104, 111, 112, 112, 105, 110, 103>>
      [] s = "Healthcare" -> <<72, 101, 97, 108, 116, 104, 99, 97, 114, 101>>
      [] s = "Food & Dining" -> <<70, 111, 111, 100, 32, 38, 32, 68, 105, 110, 105, 110, 103>>
      [] s = "Transportation" -> <<84, 114, 97, 110, 115, 112, 111, 114, 116, 97, 116, 105, 111, 110>>
      [] s = "1" -> <<49>>
      [] s = "2" -> <<50>>
      [] s = "5" -> <<53>>
      [] s = "6" -> <<54>>

\* String.prototype.toLowerCase on the code units: A..Z become a..z
toLowerCase(text) ==
    [k \in DOMAIN text |-> IF text[k] >= 65 /\ text[k] <= 90 THEN text[k] + 32 ELSE text[k]]

\* String.prototype.includes
includes(text, searchString) ==
    \E from \in 0..(Len(text) - Len(searchString)) :
        SubSeq(text, from + 1, from + Len(searchString)) = searchString

\* a < b on strings: the first differing code unit decides, a proper prefix is less
RECURSIVE StringLess(_, _)
StringLess(a, b) ==
    IF b = <<>> THEN FALSE
    ELSE IF a = <<>> THEN TRUE
    ELSE IF Head(a) # Head(b) THEN Head(a) < Head(b)
    ELSE StringLess(Tail(a), Tail(b))

ExpenseListExpenses == filteredExpenses

ExpenseList_matchesSearch(expense) ==
    \/ includes(toLowerCase(Chars(expense.description)),
                toLowerCase(Chars(expenseList.searchTerm)))
    \/ includes(toLowerCase(Chars(getCategoryName(expense.categoryId))),
                toLowerCase(Chars(expenseList.searchTerm)))

ExpenseList_filteredExpenses == SelectSeq(ExpenseListExpenses, ExpenseList_matchesSearch)

CategorySortValue_id(expense) == Chars(expense.categoryId)

\* case 'category': getCategoryName(a.categoryId)
CategorySortValue(expense) == Chars(getCategoryName(expense.categoryId))

\* aValue < bValue for the sort field
SortValueLess(a, b) ==
    CASE expenseList.sortField = "date" ->
             GetTime(NewDate(a.date)) < GetTime(NewDate(b.date))
      [] expenseList.sortField = "amount" -> a.amount < b.amount
      [] expenseList.sortField = "category" ->
             StringLess(CategorySortValue(a), CategorySortValue(b))

\* the comparator given to sort
compareFn(a, b) ==
    IF expenseList.sortDirection = "asc"
    THEN IF SortValueLess(a, b) THEN -1 ELSE IF SortValueLess(b, a) THEN 1 ELSE 0
    ELSE IF SortValueLess(b, a) THEN -1 ELSE IF SortValueLess(a, b) THEN 1 ELSE 0

\* Array.prototype.sort, which is stable: x goes before the first element
\* that the comparator puts after it
InsertSorted(sorted, x) ==
    LET later == {k \in DOMAIN sorted : compareFn(x, sorted[k]) < 0}
        at == IF later = {} THEN Len(sorted) + 1
              ELSE CHOOSE k \in later : \A j \in later : k <= j
    IN  SubSeq(sorted, 1, at - 1) \o <<x>> \o SubSeq(sorted, at, Len(sorted))

RECURSIVE ArraySort(_)
ArraySort(list) ==
    IF list = <<>> THEN <<>>
    ELSE InsertSorted(ArraySort(SubSeq(list, 1, Len(list) - 1)), list[Len(list)])

sortedExpenses == ArraySort(ExpenseList_filteredExpenses)

ExpenseListOnly ==
    /\ NoDialogOpen
    /\ toast' = NoToast
    /\ submitted' = FALSE
    /\ NoSave
    /\ UNCHANGED <<now, expenses, categories, budgets, filters, isFormOpen,
                   editingExpense, expenseForm, budgetTracker, categoryManager>>

\* the search Input's onChange
ExpenseList_setSearchTerm(value) ==
    /\ expenseList' = [expenseList EXCEPT !.searchTerm = value]
    /\ ExpenseListOnly

ExpenseList_handleSort(field) ==
    /\ expenseList' =
           IF expenseList.sortField = field
           THEN [expenseList EXCEPT
                    !.sortDirection = IF expenseList.sortDirection = "asc"
                                      THEN "desc" ELSE "asc"]
           ELSE [expenseList EXCEPT !.sortField = field, !.sortDirection = "desc"]
    /\ ExpenseListOnly

MaxListed == 3

Described(expense, description) == [expense EXCEPT !.description = description]

ListSamples ==
    { Described(Stored(5, "5", "expense", Epoch), "Lunch"),
      Described(Stored(8, "6", "income", Epoch + 1), "bus"),
      Described(Stored(5, "1", "expense", Epoch + TicksPerDay), "Shoes"),
      Described(Stored(3, "6", "expense", Epoch + 2 * TicksPerDay), "") }

\* the two predefined categories left after the others were deleted
ListCategories ==
    <<[id |-> "5", name |-> "Shopping"],
      [id |-> "6", name |-> "Healthcare"]>>

\* the lists of at most MaxListed of the samples, each with its own id
DrawnListed(samples) ==
    LET lists == UNION {[1..n -> samples] : n \in 0..MaxListed}
    IN  {[i \in DOMAIN l |-> [l[i] EXCEPT !.id = ToString(i)]] : l \in lists}

InitList == \E e \in DrawnListed(ListSamples) : Mounted(e, ListCategories, <<>>)

SearchTerms == {"", "UN", "sho", "x"}
SortFields == {"date", "amount", "category"}

NextList ==
    \/ \E value \in SearchTerms : ExpenseList_setSearchTerm(value)
    \/ \E field \in SortFields : ExpenseList_handleSort(field)
    \/ \E value \in FilterTypes : FilterControls_typeChange(value)

SpecList == InitList /\ [][NextList]_vars

-----------------------------------------------------------------------------
(* C19: the table's rows are a permutation of exactly the given            *)
(* transactions whose description or resolved category name ('Unknown'     *)
(* for an id that resolves to no category) contains the query as a         *)
(* case-insensitive substring, in non-decreasing (asc) or non-increasing   *)
(* (desc) order of the chosen field, 'category' comparing the resolved     *)
(* names and not the ids; the given list is not reordered.                 *)

\* the code unit with an upper-case letter folded to its lower-case one
Fold(c) == IF c \in 65..90 THEN c + 32 ELSE c

ContainsIgnoringCase(text, query) ==
    \E offset \in 0..Len(text) :
        /\ offset + Len(query) <= Len(text)
        /\ \A j \in 1..Len(query) : Fold(text[offset + j]) = Fold(query[j])

ResolvedName(categoryId) ==
    IF \E i \in DOMAIN categories : categories[i].id = categoryId
    THEN (CHOOSE c \in Range(categories) : c.id = categoryId).name
    ELSE "Unknown"

MatchesQuery(expense) ==
    \/ ContainsIgnoringCase(Chars(expense.description), Chars(expenseList.searchTerm))
    \/ ContainsIgnoringCase(Chars(ResolvedName(expense.categoryId)),
                            Chars(expenseList.searchTerm))

Occurrences(list, x) == Cardinality({k \in DOMAIN list : list[k] = x})

\* a <= b in the chosen field
FieldAtMost(a, b) ==
    CASE expenseList.sortField = "date" -> a.date.t <= b.date.t
      [] expenseList.sortField = "amount" -> a.amount <= b.amount
      [] expenseList.sortField = "category" ->
             ~StringLess(Chars(ResolvedName(b.categoryId)),
                         Chars(ResolvedName(a.categoryId)))

RowsAreSortedMatches ==
    /\ \A x \in Range(ExpenseListExpenses) \cup Range(sortedExpenses) :
           Occurrences(sortedExpenses, x)
             = IF MatchesQuery(x) THEN Occurrences(ExpenseListExpenses, x) ELSE 0
    /\ \A k \in 1..(Len(sortedExpenses) - 1) :
           IF expenseList.sortDirection = "asc"
           THEN FieldAtMost(sortedExpenses[k], sortedExpenses[k + 1])
           ELSE FieldAtMost(sortedExpenses[k + 1], sortedExpenses[k])

TableViewContract ==
    /\ []RowsAreSortedMatches
    /\ [][expenseList' # expenseList => expenses' = expenses]_vars

\* a search that keeps some of the transactions, shown by category name in
\* an order that is neither the given order nor the order of the ids
SearchedAndSortedByName ==
    /\ expenseList.searchTerm = "UN"
    /\ expenseList.sortField = "category"
    /\ expenseList.sortDirection = "asc"
    /\ Len(sortedExpenses) = 2
    /\ Len(ExpenseListExpenses) = 3
    /\ sortedExpenses # ExpenseList_filteredExpenses
    /\ getCategoryName(sortedExpenses[1].categoryId) = "Shopping"
    /\ getCategoryName(sortedExpenses[2].categoryId) = "Unknown"

-----------------------------------------------------------------------------
(* The filter over up to MaxListed stored transactions, while the clock    *)
(* runs and the type, the minimum amount and the end date change.          *)

InitFiltered == \E e \in DrawnListed(FilterSamples) : Mounted(e, StoredCategories, <<>>)

NextFiltered ==
    \/ ClockRuns /\ Tick
    \/ \E value \in FilterTypes : FilterControls_typeChange(value)
    \/ \E text \in FilterAmountTexts : FilterControls_minAmountChange(text)
    \/ \E date \in PickedDays : FilterControls_endDateSelect(date)

SpecFiltered == InitFiltered /\ [][NextFiltered]_vars

-----------------------------------------------------------------------------
(* C20: the filter is pure and order-preserving: its result is a           *)
(* subsequence of the transaction collection in the same relative order,   *)
(* computing it changes neither the collection nor the filter, and equal   *)
(* inputs give equal results.                                              *)

IsSubsequence(sub, list) ==
    \E at \in [DOMAIN sub -> DOMAIN list] :
        /\ \A j, k \in DOMAIN sub : j < k => at[j] < at[k]
        /\ \A k \in DOMAIN sub : sub[k] = list[at[k]]

-----------------------------------------------------------------------------
(* C21: the id of a new transaction, category or budget is the creation    *)
(* time's millisecond timestamp as a string: within a collection the ids   *)
(* of created entities are pairwise distinct when no two were created in   *)
(* the same millisecond, and two entities created in the same millisecond  *)
(* have equal ids.                                                         *)

\* the timestamp's decimal digits
TimestampString(t) == ToString(t)

\* ids equal exactly where the creation instants are equal
IdsFollowCreationTime(list) ==
    \A i, j \in DOMAIN list :
        list[i].id = list[j].id <=> GetTime(list[i].createdAt) = GetTime(list[j].createdAt)

NewIdsAreTimestamps ==
    /\ []IdsFollowCreationTime(expenses)
    /\ []IdsFollowCreationTime(budgets)
    /\ [][Len(expenses') = Len(expenses) + 1
            => expenses'[1].id = TimestampString(now)]_vars
    /\ [][Len(budgets') = Len(budgets) + 1
            => budgets'[Len(budgets')].id = TimestampString(now)]_vars
    /\ [][Len(categories') = Len(categories) + 1
            => categories'[Len(categories')].id = TimestampString(now)]_vars

\* two transactions added within one millisecond
TwinTransactions ==
    /\ Len(expenses) = 2
    /\ expenses[1].id = expenses[2].id
    /\ expenses[1].amount # expenses[2].amount

-----------------------------------------------------------------------------
(* C22: a transaction mutation touches only the addressed record: an edit  *)
(* replaces amount, categoryId, description, date and type of the          *)
(* transaction with that id and keeps its id, createdAt and position; a    *)
(* delete removes the transaction with that id; every other transaction,   *)
(* the categories and the budgets are unchanged.                           *)

\* the record at position i after the form's data replaced its five fields
EditedAt(i) ==
    [id |-> expenses[i].id,
     createdAt |-> expenses[i].createdAt,
     amount |-> parseFloat(Value(expenseForm).amount),
     categoryId |-> Value(expenseForm).categoryId,
     description |-> Value(expenseForm).description,
     date |-> Value(expenseForm).date,
     type |-> Value(expenseForm).type]

TransactionEditFrame ==
    /\ \E i \in DOMAIN expenses :
          /\ expenses[i].id = Value(editingExpense).id
          /\ expenses' = [expenses EXCEPT ![i] = EditedAt(i)]
    /\ categories' = categories
    /\ budgets' = budgets

TransactionDeleteFrame ==
    /\ \E i \in DOMAIN expenses : expenses' = RemoveAt(expenses, i)
    /\ \A i \in DOMAIN expenses' : Includes(expenses, expenses'[i])
    /\ categories' = categories
    /\ budgets' = budgets

TransactionMutationTouchesOneRecord ==
    /\ [][toast' = "Expense Updated" => TransactionEditFrame]_vars
    /\ [][toast' = "Expense Deleted" => TransactionDeleteFrame]_vars

ExpenseIdsUnique ==
    \A i, j \in DOMAIN expenses : expenses[i].id = expenses[j].id => i = j

\* what holds of the code: the claim, for transactions whose ids differ
TransactionMutationTouchesOneRecordWhileIdsUnique ==
    /\ [][toast' = "Expense Updated" /\ ExpenseIdsUnique => TransactionEditFrame]_vars
    /\ [][toast' = "Expense Deleted" /\ ExpenseIdsUnique => TransactionDeleteFrame]_vars

-----------------------------------------------------------------------------
(* C23: every category created or edited through the category form has a   *)
(* non-empty name: a submission whose name is empty or only whitespace is  *)
(* rejected with a notice and leaves the categories unchanged, so that     *)
(* after any adds, edits and deletes from the predefined set no category   *)
(* has a blank name.                                                       *)

\* tab, line feed, vertical tab, form feed, carriage return, space, no-break space
WhitespaceCodes == {9, 10, 11, 12, 13, 32, 160}

Blank(name) == \A k \in DOMAIN Chars(name) : Chars(name)[k] \in WhitespaceCodes

NoBlankCategoryName == \A i \in DOMAIN categories : ~Blank(categories[i].name)

BlankNameRejected ==
    /\ []NoBlankCategoryName
    /\ [][CategoryManager_handleSubmit /\ Blank(categoryManager.formData.name)
            => /\ categories' = categories
               /\ toast' = "Error: Category name is required."]_vars

\* an edit of an existing category to a name of one space has been rejected
WhitespaceEditRejected ==
    /\ toast = "Error: Category name is required."
    /\ categoryManager.formData.name = " "
    /\ categoryManager.editingCategory # Null
    /\ submitted

-----------------------------------------------------------------------------
(* C24: a budget's spent amount, remaining amount and status do not depend *)
(* on the filter: with the transactions, the budget and the clock fixed,   *)
(* any two filter states give the same spent amount.                       *)

SpentIndependentOfFilter ==
    [][(expenses' = expenses /\ budgets' = budgets /\ now' = now)
       => \A i \in DOMAIN budgets :
             LET budget == budgets[i]
                 before == getSpentAmount(budget)
                 after == getSpentAmount(budget)'
             IN  /\ after = before
                 /\ Remaining(budget, after) = Remaining(budget, before)
                 /\ getBudgetStatus(budget, after) = getBudgetStatus(budget, before)]_vars

-----------------------------------------------------------------------------
(* Startup effect by effect: Index renders with its useState values, then  *)
(* the load effect and the three save effects of that first commit run in  *)
(* order; the collections the load effect set make Index render again, and *)
(* their save effects run once more.                                       *)

EffectsOnly ==
    /\ toast' = NoToast
    /\ submitted' = FALSE
    /\ UNCHANGED <<now, filters, isFormOpen, editingExpense, expenseForm,
                   budgetTracker, categoryManager, expenseList>>

\* Index's first render over the stored contents, no effect run yet
PageLoaded(stored) ==
    /\ now = Epoch
    /\ expenses = <<>>
    /\ categories = getDefaultCategories
    /\ budgets = <<>>
    /\ filters = InitialFilters
    /\ isFormOpen = FALSE
    /\ editingExpense = Null
    /\ expenseForm = Null
    /\ budgetTracker = ClosedBudgetTracker
    /\ categoryManager = ClosedCategoryManager
    /\ expenseList = InitialExpenseList
    /\ storage = stored
    /\ writes = <<>>
    /\ effects = [pending |-> "load", set |-> {}]
    /\ toast = NoToast
    /\ submitted = FALSE

\* the load effect: the state setters are called for the keys that are present
Index_loadEffect ==
    /\ effects.pending = "load"
    /\ expenses' = LoadExpenses(storage.expenses)
    /\ categories' = LoadCategories(storage.categories)
    /\ budgets' = LoadBudgets(storage.budgets)
    /\ effects' = [pending |-> "save", set |-> {key \in StorageKeys : storage[key] # Null}]
    /\ writes' = <<>>
    /\ UNCHANGED storage
    /\ EffectsOnly

\* the save effects of the first commit: their closures hold the useState values
Index_saveEffectsOfFirstCommit ==
    /\ effects.pending = "save"
    /\ storage' = [expenses   |-> Some(StringifyExpenses(<<>>)),
                   categories |-> Some(StringifyCategories(getDefaultCategories)),
                   budgets    |-> Some(StringifyBudgets(<<>>))]
    /\ writes' = <<"expenses", "categories", "budgets">>
    /\ effects' = [effects EXCEPT !.pending = IF effects.set = {} THEN "none" ELSE "resave"]
    /\ UNCHANGED <<expenses, categories, budgets>>
    /\ EffectsOnly

\* the save effects of the commit that applied the loaded state
Index_saveEffectsAfterLoad ==
    /\ effects.pending = "resave"
    /\ storage' = [expenses   |-> IF "expenses" \in effects.set
                                  THEN Some(StringifyExpenses(expenses))
                                  ELSE storage.expenses,
                   categories |-> IF "categories" \in effects.set
                                  THEN Some(StringifyCategories(categories))
                                  ELSE storage.categories,
                   budgets    |-> IF "budgets" \in effects.set
                                  THEN Some(StringifyBudgets(budgets))
                                  ELSE storage.budgets]
    /\ writes' = (IF "expenses" \in effects.set THEN <<"expenses">> ELSE <<>>)
                 \o (IF "categories" \in effects.set THEN <<"categories">> ELSE <<>>)
                 \o (IF "budgets" \in effects.set THEN <<"budgets">> ELSE <<>>)
    /\ effects' = NoEffects
    /\ UNCHANGED <<expenses, categories, budgets>>
    /\ EffectsOnly

\* what the browser holds when the page loads
StoredContents ==
    [expenses   : {Null} \cup {Some(StringifyExpenses(e)) : e \in Drawn(StorageSamples)},
     categories : {Null, Some(StringifyCategories(<<>>)),
                   Some(StringifyCategories(StoredCategories))},
     budgets    : {Null} \cup {Some(StringifyBudgets(b)) : b \in CategoryBudgets}]

InitStartup == \E stored \in StoredContents : PageLoaded(stored)

NextStartup ==
    \/ Index_loadEffect
    \/ Index_saveEffectsOfFirstCommit
    \/ Index_saveEffectsAfterLoad
    \/ /\ effects = NoEffects
       /\ \E id \in {"1", "2"} : Index_handleDeleteExpense(id)

SpecStartup == InitStartup /\ [][NextStartup]_vars

-----------------------------------------------------------------------------
(* C25: startup never overwrites persisted data with the initial           *)
(* in-memory state: whatever is stored under 'expenses', 'categories' and  *)
(* 'budgets' before startup, in every state reached while the mount        *)
(* effects run each key holds the collection it held before startup.       *)

StartupKeepsStoredData ==
    [][effects.pending # "none"
       => \A key \in StorageKeys :
             storage[key] # Null => storage'[key] = storage[key]]_vars

\* what holds of the code: the load effect reads what is stored before any
\* save effect writes, and the last save effects write that back
StartupRestoresStoredData ==
    /\ [][effects.pending = "load"
            => /\ storage' = storage
               /\ storage.expenses # Null
                    => Some(StringifyExpenses(expenses')) = storage.expenses
               /\ storage.categories # Null
                    => Some(StringifyCategories(categories')) = storage.categories
               /\ storage.budgets # Null
                    => Some(StringifyBudgets(budgets')) = storage.budgets]_vars
    /\ [][effects.pending \in {"save", "resave"}
            => <<expenses, categories, budgets>>' = <<expenses, categories, budgets>>]_vars
    /\ [][effects.pending = "resave"
            => /\ "expenses" \in effects.set
                    => storage'.expenses = Some(StringifyExpenses(expenses))
               /\ "categories" \in effects.set
                    => storage'.categories = Some(StringifyCategories(categories))
               /\ "budgets" \in effects.set
                    => storage'.budgets = Some(StringifyBudgets(budgets))]_vars

-----------------------------------------------------------------------------
(* C26: in every reachable filter state startDate <= endDate, whatever     *)
(* month navigation, quick ranges and start / end date selections were     *)
(* applied from the initial month range, so the interval given to the      *)
(* daily series is well-formed.                                            *)

FilterRangeOrdered == GetTime(filters.startDate) <= GetTime(filters.endDate)

\* what holds of the code: a step that sets both ends (month navigation, a
\* quick range) leaves them ordered
BothEndsSetOrdered ==
    [][(filters'.startDate # filters.startDate /\ filters'.endDate # filters.endDate)
       => FilterRangeOrdered']_vars

-----------------------------------------------------------------------------
(* C27: the filter's date condition is inclusive by calendar day: a        *)
(* transaction dated on the calendar day of the end date, or of the start  *)
(* date, satisfies it whatever its time of day and however the bound was   *)
(* set.                                                                    *)

\* the other conditions of the filter let the transaction through
OtherConditionsPass(expense) ==
    /\ filters.categories = <<>>
    /\ filters.minAmount = Null
    /\ filters.maxAmount = Null
    /\ filters.type = "all" \/ expense.type = filters.type

OnBoundDay(expense) ==
    LET day == DayIndex(NewDate(expense.date))
    IN  /\ DayIndex(filters.startDate) <= DayIndex(filters.endDate)
        /\ day = DayIndex(filters.startDate) \/ day = DayIndex(filters.endDate)

BoundDaysIncluded ==
    \A i \in DOMAIN expenses :
        OnBoundDay(expenses[i]) /\ OtherConditionsPass(expenses[i])
        => Includes(filteredExpenses, expenses[i])

\* what holds of the code: the claim, for a range from the first instant of
\* its first day to the last instant of its last day
BoundDaysIncludedOfWholeDays ==
    (/\ filters.startDate = startOfDay(filters.startDate)
     /\ GetTime(filters.endDate) = GetTime(startOfDay(filters.endDate)) + TicksPerDay - 1)
    => BoundDaysIncluded

-----------------------------------------------------------------------------
(* C28: goToPreviousMonth (goToNextMonth) sets the range to the first and  *)
(* the last instant of the month just before (after) the month of the      *)
(* current startDate and leaves categories, minAmount, maxAmount and type; *)
(* so on a whole-month range next then previous, and previous then next,   *)
(* restore the range.                                                      *)

MonthIndex(d) == GetTime(d) \div TicksPerMonth

\* the range is exactly the month of number m
IsMonth(f, m) ==
    /\ GetTime(f.startDate) = m * TicksPerMonth
    /\ GetTime(f.endDate) = (m + 1) * TicksPerMonth - 1

SameBesidesRange(f, g) ==
    /\ f.categories = g.categories
    /\ f.minAmount = g.minAmount
    /\ f.maxAmount = g.maxAmount
    /\ f.type = g.type

WholeMonthRange == IsMonth(filters, MonthIndex(filters.startDate))

MonthNavigationExact ==
    /\ [][Index_goToPreviousMonth
            => /\ IsMonth(filters', MonthIndex(filters.startDate) - 1)
               /\ SameBesidesRange(filters', filters)]_vars
    /\ [][Index_goToNextMonth
            => /\ IsMonth(filters', MonthIndex(filters.startDate) + 1)
               /\ SameBesidesRange(filters', filters)]_vars
    /\ [](WholeMonthRange
            => /\ PreviousMonthFilters(NextMonthFilters(filters)) = filters
               /\ NextMonthFilters(PreviousMonthFilters(filters)) = filters)

\* the month before the first one is shown, with the type filter kept
PreviousMonthShown ==
    /\ IsMonth(filters, MonthIndex(DateObj(Epoch)) - 1)
    /\ filters.type = "income"

-----------------------------------------------------------------------------
(* The filter's category set while categories are deleted.                 *)

InitSelection == \E e \in Drawn(CategorySamples) : Mounted(e, StoredCategories, <<>>)

NextSelection ==
    \/ \E categoryId \in CategoryIds : FilterControls_handleCategoryToggle(categoryId)
    \/ FilterControls_clearCategoryFilters
    \/ \E categoryId \in CategoryIds : CategoryManager_handleDelete(categoryId)
    \/ \E value \in FilterTypes : FilterControls_typeChange(value)

SpecSelection == InitSelection /\ [][NextSelection]_vars

-----------------------------------------------------------------------------
(* C29: in every reachable state the filter's category set holds only ids  *)
(* of categories that exist: after any toggles, clears and category        *)
(* deletions no id of a deleted category remains in filters.categories.    *)

FilterCategoriesExist ==
    \A k \in DOMAIN filters.categories : filters.categories[k] \in CategoryIds

\* what holds of the code: a step of the filter adds only ids of categories
\* that exist
FilterStepsAddExistingIds ==
    [][\A k \in DOMAIN filters'.categories :
          Includes(filters.categories, filters'.categories[k])
          \/ filters'.categories[k] \in CategoryIds]_vars

-----------------------------------------------------------------------------
(* C30: the budget dialog's mode is never stale: opening a budget for edit *)
(* and cancelling (the Cancel button or closing the dialog) leaves the     *)
(* budgets unchanged, and whenever 'Set Budget' then opens the dialog it   *)
(* is in add mode, editingBudget null and the fields empty, so the next    *)
(* successful submission appends a budget and overwrites none.             *)

AddMode(tracker) ==
    /\ tracker.isFormOpen
    /\ tracker.editingBudget = Null
    /\ tracker.formData = [categoryId |-> "", amount |-> "", period |-> "monthly"]

BudgetDialogModeNeverStale ==
    /\ [][(BudgetTracker_cancel \/ BudgetTracker_onOpenChange) => budgets' = budgets]_vars
    /\ [][BudgetTracker_openAddForm => AddMode(budgetTracker')]_vars
    \* a dialog opened by 'Set Budget' stays in add mode until it closes
    /\ [][(budgetTracker.isFormOpen /\ budgetTracker'.isFormOpen)
            => budgetTracker'.editingBudget = budgetTracker.editingBudget]_vars
    /\ [][(BudgetTracker_handleSubmit /\ budgetTracker.editingBudget = Null
                                      /\ budgets' # budgets)
            => /\ Len(budgets') = Len(budgets) + 1
               /\ SubSeq(budgets', 1, Len(budgets)) = budgets]_vars

\* an edit was cancelled with the Cancel button: the dialog is closed, the
\* edited budget is still remembered and is in the collection as it was
CancelledEditClosed ==
    /\ ~budgetTracker.isFormOpen
    /\ budgetTracker.editingBudget # Null
    /\ Includes(budgets, Value(budgetTracker.editingBudget))
    /\ budgetTracker.formData.amount # NumberToString(Value(budgetTracker.editingBudget).amount)

====
